---------------------------- MODULE Spec2Model ----------------------------
(***************************************************************************)
(* Model of the link registry of src/src/App.tsx: the persisted link list  *)
(* (localStorage key campus_links_v1), the dashboard page holding its own  *)
(* copy of that list in React state, and redirect handlers running in      *)
(* other tabs that load the list, append a click and save the list back.   *)
(*                                                                         *)
(* Time is counted in ticks, TicksPerMinute ticks to the minute; an ISO    *)
(* timestamp string is modelled by the tick count it denotes               *)
(* (toISOString and new Date(iso) are exact inverses at the clock's        *)
(* resolution).  A short code is a sequence of one-character strings so    *)
(* that String.prototype.trim can be computed.  A number typed into the    *)
(* validity field is a record [kind, ticks]: kind "num" with the value in  *)
(* ticks (so fractions of a minute exist), "empty" for the "" of the       *)
(* Custom... menu item and "nan" for NaN.                                  *)
(*                                                                         *)
(* A dashboard handler that calls setLinks is one step together with the   *)
(* [links] effect that saves the new list.  A redirect handler is three    *)
(* steps (load and decide, save, timer), since another tab or the          *)
(* dashboard may write the persisted list in between.  appLog writes a     *)
(* different localStorage key that no handler reads, and is left out.      *)
(*                                                                         *)
(* Spec is the model over every input; the claims are checked under the    *)
(* same next-state relation over smaller input profiles (SpecCodes,        *)
(* SpecForm, SpecExpiry, SpecFresh, SpecRace), and SpecLossless is         *)
(* SpecRace with the delete button never pressed.                          *)
(***************************************************************************)
EXTENDS Integers, Sequences, FiniteSets, TLC

\* ---------------------------------------------------------------- bounds
\* The last instant the clock reaches, and the one it reaches in the runs
\* that are about codes and form inputs rather than about expiry.
MaxTime == 3
ShortTime == 1
\* The most records createShort adds to a list, and the most clicks a list
\* holds in all.
MaxLinks == 2
MaxClicks == 2
\* The clock's resolution.
TicksPerMinute == 2

\* ------------------------------------------------------------- constants
\* validityMinutes === "" ? 30 : ...
DefaultValidityMinutes == 30

\* ---------------------------------------------------------------- inputs
\* The tabs that open a /r/:id path, each running RedirectHandler once.
Resolvers == {"t1", "t2"}
Users == {"u1"}
CodeChars == {"a", "b"}
CodeSpace == {<<c>> : c \in CodeChars}
CodeA == <<"a">>
CustomCodes == {<<" ">>, <<"a">>, <<" ", "b", " ">>}
PathIds == CodeSpace \cup {<<"z">>}
Referrers == {"", "ref"}
\* A typed URL: the scheme before the first ":" ("" when there is none) and
\* what follows "//".
UrlA == [scheme |-> "https", host |-> "example.com/x"]
UrlB == [scheme |-> "HTTP", host |-> "x.com"]
UrlFtp == [scheme |-> "ftp", host |-> "x.com"]
UrlBare == [scheme |-> "", host |-> "x.com"]
UrlInputs == {UrlA, UrlB, UrlFtp, UrlBare}
\* The validity field: "" (Custom... chosen, nothing typed), NaN, or a number.
Minutes(t) == [kind |-> "num", ticks |-> t]
EmptyValidity == [kind |-> "empty", ticks |-> 0]
NaNValidity == [kind |-> "nan", ticks |-> 0]
OneMinute == Minutes(TicksPerMinute)
ValidityInputs ==
    {EmptyValidity, NaNValidity} \cup {Minutes(t) : t \in (0 - 1)..TicksPerMinute}

VARIABLES now, storage, links, err, pc, found, updated, route

vars == <<now, storage, links, err, pc, found, updated, route>>

NoUrl == [scheme |-> "", host |-> ""]
NoLink == [id |-> <<>>, originalUrl |-> NoUrl,
           createdAt |-> 0, expiresAt |-> 0, clicks |-> <<>>, createdBy |-> ""]

\* Where a redirect handler has sent its tab: nowhere yet, a page of the app,
\* or (page "href") the external URL assigned to window.location.href.
NoRoute == [page |-> "", href |-> NoUrl]

\* ------------------------------------------------------------- utilities

\* nowIso(): the clock's reading.
nowIso == now

\* Math.trunc of ticks/TicksPerMinute, in whole minutes (toward zero).
TruncMinutes(ticks) ==
    IF ticks >= 0 THEN ticks \div TicksPerMinute
    ELSE 0 - ((0 - ticks) \div TicksPerMinute)

\* addMinutesToIso(iso, mins): Date.setMinutes takes the integer part of its
\* argument (getMinutes() is a whole number, so the fraction of mins is what
\* is dropped); seconds and milliseconds are kept.
addMinutesToIso(iso, ticks) == iso + TruncMinutes(ticks) * TicksPerMinute

\* The protocol of new URL(url), or "throws" when the URL constructor throws:
\* no scheme (a relative URL without a base), or an http(s)/ftp URL with an
\* empty host.  The parser lower-cases the scheme.
Lower(s) == IF s = "HTTP" THEN "http" ELSE IF s = "HTTPS" THEN "https" ELSE s
UrlProtocol(url) ==
    IF url.scheme = "" \/ url.host = "" THEN "throws"
    ELSE Lower(url.scheme)

isValidUrlAnyScheme(url) == UrlProtocol(url) # "throws"

isValidUrl(url) ==
    LET p == UrlProtocol(url)
    IN  p # "throws" /\ (p = "http" \/ p = "https")

\* String.prototype.trim on a sequence of characters.
RECURSIVE TrimLeft(_)
TrimLeft(s) == IF s # <<>> /\ Head(s) = " " THEN TrimLeft(Tail(s)) ELSE s
RECURSIVE TrimRight(_)
TrimRight(s) ==
    IF s # <<>> /\ s[Len(s)] = " " THEN TrimRight(SubSeq(s, 1, Len(s) - 1)) ELSE s
trim(s) == TrimRight(TrimLeft(s))

\* Array.prototype.find by id: the first match, or NoLink for undefined.
HasId(l, id) == \E i \in DOMAIN l : l[i].id = id
FindById(l, id) ==
    IF HasId(l, id)
    THEN l[CHOOSE i \in DOMAIN l : l[i].id = id /\ \A j \in 1..(i - 1) : l[j].id # id]
    ELSE NoLink

AppendClickFirst(l, id, rec) ==
    [i \in DOMAIN l |->
        IF l[i].id = id THEN [l[i] EXCEPT !.clicks = <<rec>> \o @] ELSE l[i]]

\* links.map(l => l.id === id ? {...l, clicks: [...l.clicks, rec]} : l)
AppendClick(l, id, rec) ==
    [i \in DOMAIN l |->
        IF l[i].id = id THEN [l[i] EXCEPT !.clicks = Append(@, rec)] ELSE l[i]]

\* The number of click records held in a list.
RECURSIVE TotalClicks(_)
TotalClicks(l) == IF l = <<>> THEN 0 ELSE Len(Head(l).clicks) + TotalClicks(Tail(l))

\* loadLinks / saveLinks: JSON.parse and JSON.stringify of the list, which
\* hold strings and arrays only and give the list back as it was.
loadLinks == storage
saveLinks(l) == storage' = l

Init ==
    /\ now = 0
    /\ storage = <<>>
    /\ links = <<>>
    /\ err = ""
    /\ pc = [r \in Resolvers |-> "idle"]
    /\ found = [r \in Resolvers |-> NoLink]
    /\ updated = [r \in Resolvers |-> <<>>]
    /\ route = [r \in Resolvers |-> NoRoute]

\* ------------------------------------------------------ DashboardPage

ErrUrl == "Enter a valid http(s) URL"
ErrValidity == "Validity must be a positive number of minutes"
ErrCollision == "Short code collision, try another custom code"

\* validityMinutes === "" ? 30 : Number(validityMinutes)
MinutesOf(validityMinutes) ==
    IF validityMinutes.kind = "empty"
    THEN [kind |-> "num", ticks |-> DefaultValidityMinutes * TicksPerMinute]
    ELSE validityMinutes

\* Number.isNaN(minutes) || minutes <= 0
BadMinutes(minutes) == minutes.kind = "nan" \/ minutes.ticks <= 0

\* customCode.trim() || genShortCode(); generated is what
\* Math.random().toString(36).substring(2, 8) returns on this call.
CodeFor(customCode, generated) ==
    IF trim(customCode) # <<>> THEN trim(customCode) ELSE generated

NewLink(code, originalUrl, minutes, user) ==
    [id |-> code,
     originalUrl |-> originalUrl,
     createdAt |-> nowIso,
     expiresAt |-> addMinutesToIso(nowIso, minutes.ticks),
     clicks |-> <<>>,
     createdBy |-> user]

\* The dashboard's state after a handler has called setLinks: the new list
\* is rendered and the [links] effect saves it.
SetLinks(l) ==
    /\ links' = l
    /\ saveLinks(l)

CollidesNever(code) == FALSE

\* links.find((l) => l.id === code)
Collides(code) == HasId(links, code)

Rejects(originalUrl, customCode, validityMinutes, generated) ==
    \/ ~isValidUrl(originalUrl)
    \/ BadMinutes(MinutesOf(validityMinutes))
    \/ Collides(CodeFor(customCode, generated))

createShort(originalUrl, customCode, validityMinutes, generated, user) ==
    /\ Rejects(originalUrl, customCode, validityMinutes, generated)
          \/ Len(links) < MaxLinks
    /\ IF ~isValidUrl(originalUrl)
       THEN /\ err' = ErrUrl
            /\ UNCHANGED <<links, storage>>
       ELSE LET minutes == MinutesOf(validityMinutes)
            IN  IF BadMinutes(minutes)
                THEN /\ err' = ErrValidity
                     /\ UNCHANGED <<links, storage>>
                ELSE LET code == CodeFor(customCode, generated)
                     IN  IF Collides(code)
                         THEN /\ err' = ErrCollision
                              /\ UNCHANGED <<links, storage>>
                         ELSE /\ err' = ""
                              /\ SetLinks(<<NewLink(code, originalUrl, minutes, user)>>
                                             \o links)
    /\ UNCHANGED <<now, pc, found, updated, route>>

removeLinkInverted(id) ==
    /\ HasId(links, id)
    /\ SetLinks(SelectSeq(links, LAMBDA l : l.id = id))
    /\ UNCHANGED <<now, err, pc, found, updated, route>>

\* s.filter(l => l.id !== id)
removeLink(id) ==
    /\ HasId(links, id)
    /\ SetLinks(SelectSeq(links, LAMBDA l : l.id # id))
    /\ UNCHANGED <<now, err, pc, found, updated, route>>

simulateClick(link, source) ==
    /\ HasId(links, link.id)
    /\ TotalClicks(links) < MaxClicks
    /\ SetLinks(AppendClick(links, link.id, [ts |-> nowIso, source |-> source]))
    /\ UNCHANGED <<now, err, pc, found, updated, route>>

\* The dashboard page is mounted (a reload, or a navigation back to "/"):
\* its state starts from loadLinks() and the [links] effect saves it.
DashboardMount ==
    /\ links' = loadLinks
    /\ saveLinks(loadLinks)
    /\ err' = ""
    /\ UNCHANGED <<now, pc, found, updated, route>>

\* ----------------------------------------------------- RedirectHandler

\* new Date(found.expiresAt) < new Date()
IsExpired(link) == link.expiresAt < now

\* document.referrer || "direct"
SourceOf(referrer) == IF referrer = "" THEN "direct" ELSE referrer

\* Lines 512-531: the handler reads the list, looks the id up, checks the
\* expiry and builds the updated list.
ResolveLoad(r, id, referrer) ==
    /\ pc[r] = "idle"
    /\ LET list == loadLinks
           hit  == FindById(list, id)
       IN  IF ~HasId(list, id)
           THEN /\ route' = [route EXCEPT ![r] = [page |-> "/404", href |-> NoUrl]]
                /\ pc' = [pc EXCEPT ![r] = "done"]
                /\ UNCHANGED <<found, updated>>
           ELSE IF IsExpired(hit)
           THEN /\ route' = [route EXCEPT ![r] = [page |-> "/expired", href |-> NoUrl]]
                /\ pc' = [pc EXCEPT ![r] = "done"]
                /\ UNCHANGED <<found, updated>>
           ELSE /\ TotalClicks(list) < MaxClicks
                /\ found' = [found EXCEPT ![r] = hit]
                /\ updated' = [updated EXCEPT ![r] =
                       AppendClick(list, id, [ts |-> nowIso, source |-> SourceOf(referrer)])]
                /\ pc' = [pc EXCEPT ![r] = "save"]
                /\ UNCHANGED route
    /\ UNCHANGED <<now, storage, links, err>>

\* Line 532: saveLinks(updated); the redirect timer is started.
ResolveSave(r) ==
    /\ pc[r] = "save"
    /\ saveLinks(updated[r])
    /\ updated' = [updated EXCEPT ![r] = <<>>]
    /\ pc' = [pc EXCEPT ![r] = "timer"]
    /\ UNCHANGED <<now, links, err, found, route>>

\* Lines 535-537: the timer fires, window.location.href = found.originalUrl.
ResolveRedirect(r) ==
    /\ pc[r] = "timer"
    /\ route' = [route EXCEPT ![r] = [page |-> "href", href |-> found[r].originalUrl]]
    /\ found' = [found EXCEPT ![r] = NoLink]
    /\ pc' = [pc EXCEPT ![r] = "done"]
    /\ UNCHANGED <<now, storage, links, err, updated>>

\* ------------------------------------------------------------- clock

Tick(horizon) ==
    /\ now < horizon
    /\ now' = now + 1
    /\ UNCHANGED <<storage, links, err, pc, found, updated, route>>

\* The next-state relation over the inputs of a profile p: the URLs, custom
\* codes and validities typed into the form, the codes the generator may
\* return, the ids of the /r/:id paths opened, their referrers, the tabs
\* that open them, and the last instant the clock reaches.
Dashboard(p) ==
    \/ \E u \in p.urls, c \in p.customs, v \in p.validities,
          g \in p.generated, o \in Users : createShort(u, c, v, g, o)
    \/ \E i \in DOMAIN links : simulateClick(links[i], "manual-sim")
    \/ DashboardMount

Redirects(p) ==
    \/ \E r \in p.tabs, id \in p.paths, ref \in p.referrers : ResolveLoad(r, id, ref)
    \/ \E r \in Resolvers : ResolveSave(r)
    \/ \E r \in Resolvers : ResolveRedirect(r)

NextOver(p) ==
    \/ Dashboard(p)
    \/ \E id \in CodeSpace : removeLink(id)
    \/ Redirects(p)
    \/ Tick(p.horizon)

\* The same with the delete button never pressed.
NextNoDelete(p) ==
    \/ Dashboard(p)
    \/ Redirects(p)
    \/ Tick(p.horizon)

AllInputs ==
    [urls |-> UrlInputs, customs |-> CustomCodes, validities |-> ValidityInputs,
     generated |-> CodeSpace, paths |-> PathIds, referrers |-> Referrers,
     tabs |-> Resolvers, horizon |-> MaxTime]

Next == NextOver(AllInputs)

Spec == Init /\ [][Next]_vars

\* Two codes in play (custom, trimmed and generated), one destination.
CodesInputs ==
    [urls |-> {UrlA}, customs |-> CustomCodes, validities |-> {EmptyValidity},
     generated |-> CodeSpace, paths |-> {CodeA}, referrers |-> {""},
     tabs |-> {"t1"}, horizon |-> ShortTime]

SpecCodes == Init /\ [][NextOver(CodesInputs)]_vars

\* Every URL and validity the form can hold, one code, one tab.
FormInputs ==
    [urls |-> {UrlA, UrlFtp, UrlBare}, customs |-> {CodeA},
     validities |-> ValidityInputs, generated |-> {CodeA},
     paths |-> {CodeA, <<"z">>}, referrers |-> {""}, tabs |-> {"t1"},
     horizon |-> ShortTime]

SpecForm == Init /\ [][NextOver(FormInputs)]_vars

\* Records that live half a minute and a minute, followed past their expiry.
ExpiryInputs ==
    [urls |-> {UrlA}, customs |-> {CodeA},
     validities |-> {Minutes(1), OneMinute}, generated |-> {CodeA},
     paths |-> {CodeA, <<"z">>}, referrers |-> {""}, tabs |-> {"t1"},
     horizon |-> MaxTime]

SpecExpiry == Init /\ [][NextOver(ExpiryInputs)]_vars

\* One code and two destinations, one tab, both referrers.
FreshInputs ==
    [urls |-> {UrlA, UrlB}, customs |-> {CodeA}, validities |-> {OneMinute},
     generated |-> {CodeA}, paths |-> {CodeA}, referrers |-> Referrers,
     tabs |-> {"t1"}, horizon |-> MaxTime]

SpecFresh == Init /\ [][NextOver(FreshInputs)]_vars

\* One code resolved from two tabs at once.
RaceInputs ==
    [urls |-> {UrlA}, customs |-> {CodeA}, validities |-> {OneMinute},
     generated |-> {CodeA}, paths |-> {CodeA}, referrers |-> {"ref"},
     tabs |-> Resolvers, horizon |-> MaxTime]

SpecRace == Init /\ [][NextOver(RaceInputs)]_vars

SpecLossless == Init /\ [][NextNoDelete(RaceInputs)]_vars

\* ------------------------------------------------------------ claims

UniqueCodes(l) == \A i, j \in DOMAIN l : l[i].id = l[j].id => i = j

\* C1: after every step no two records of the dashboard's link list, and no
\* two records of the persisted list, have the same code; and a createShort
\* whose code is already in the link list leaves both lists as they were.
C1_UniqueCodes ==
    [][ /\ UniqueCodes(links') /\ UniqueCodes(storage')
        /\ \A u \in CodesInputs.urls, c \in CodesInputs.customs,
              v \in CodesInputs.validities, g \in CodesInputs.generated, o \in Users :
              \/ (links' = links /\ storage' = storage)
              \/ ~(HasId(links, CodeFor(c, g)) /\ createShort(u, c, v, g, o)) ]_vars

\* Two records with different codes are held and a create asking for a code
\* already taken has just been refused.
C1_Witness ==
    /\ Len(links) = 2 /\ Len(storage) = 2
    /\ links[1].id # links[2].id
    /\ err = ErrCollision

\* C2 (as claimed): with no delete, every tab that has saved its click for a
\* code (and waits for its redirect timer) has one click of its own in the
\* persisted record: the record holds at least as many redirect clicks
\* (clicks that are not the dashboard's simulated ones) as there are such
\* tabs.
C2_NoClickLost ==
    \A c \in CodeSpace :
        LET clicks == FindById(storage, c).clicks
        IN  Cardinality({i \in DOMAIN clicks : clicks[i].source # "manual-sim"})
              >= Cardinality({r \in Resolvers : pc[r] = "timer" /\ found[r].id = c})

\* C3 (as claimed): a RedirectHandler run that finds a record whose expiry
\* has been reached (now >= expiresAt, for a record that expires after its
\* creation) builds no click and leaves nothing to save: the tab is done in
\* that step and the persisted list stays as it was.
C3_ExpiredResolveIsInert ==
    [][ \A r \in Resolvers, id \in PathIds, ref \in Referrers :
          (ResolveLoad(r, id, ref) /\ HasId(storage, id)
              /\ FindById(storage, id).expiresAt > FindById(storage, id).createdAt
              /\ now >= FindById(storage, id).expiresAt)
          => /\ pc'[r] = "done"
             /\ updated'[r] = <<>>
             /\ storage' = storage ]_vars

\* C4 (as claimed): the check sends the tab to /expired exactly when
\* now >= expiresAt and goes on to the redirect exactly when now < expiresAt;
\* stated for the records that expire after their creation.
C4_ExpiredIffReached ==
    [][ \A r \in Resolvers, id \in PathIds, ref \in Referrers :
          (ResolveLoad(r, id, ref) /\ HasId(storage, id)
              /\ FindById(storage, id).expiresAt > FindById(storage, id).createdAt)
          => /\ (route'[r].page = "/expired") <=> (now >= FindById(storage, id).expiresAt)
             /\ (found'[r] = FindById(storage, id))
                    <=> (now < FindById(storage, id).expiresAt) ]_vars

\* C5 (as claimed): once a tab has saved its click for a code and the
\* dashboard's list no longer holds that code, the persisted list does not
\* hold it either.
C5_DeletedStaysDeleted ==
    \A r \in Resolvers :
        (pc[r] = "timer" /\ ~HasId(links, found[r].id))
            => ~HasId(storage, found[r].id)

\* C6: a RedirectHandler run that finds a record before its expiry keeps
\* that record, builds the list in which the record's clicks are the ones
\* found followed by one click with the caller's source, saves exactly that
\* list, and then sends the tab to the record's originalUrl; and the record
\* createShort adds holds the URL typed as its originalUrl.
C6_RoundTrip ==
    [][ /\ \A r \in Resolvers, id \in PathIds, ref \in Referrers :
              (ResolveLoad(r, id, ref) /\ HasId(storage, id)
                  /\ now < FindById(storage, id).expiresAt)
              => /\ pc'[r] = "save"
                 /\ found'[r] = FindById(storage, id)
                 /\ FindById(updated'[r], id) =
                       [found'[r] EXCEPT !.clicks =
                           Append(@, [ts |-> now, source |-> SourceOf(ref)])]
        /\ \A r \in Resolvers :
              ResolveSave(r)
              => /\ storage' = updated[r]
                 /\ LET rec == FindById(storage', found[r].id)
                    IN  /\ rec.originalUrl = found[r].originalUrl
                        /\ Len(rec.clicks) = Len(found[r].clicks) + 1
                        /\ SubSeq(rec.clicks, 1, Len(found[r].clicks)) = found[r].clicks
        /\ \A r \in Resolvers :
              ResolveRedirect(r)
              => route'[r] = [page |-> "href", href |-> found[r].originalUrl]
        /\ \A u \in FreshInputs.urls, c \in FreshInputs.customs,
              v \in FreshInputs.validities, g \in FreshInputs.generated, o \in Users :
              (createShort(u, c, v, g, o) /\ links' # links)
              => /\ links'[1].id = CodeFor(c, g)
                 /\ links'[1].originalUrl = u
                 /\ storage' = links' ]_vars

\* A tab has been redirected to the second destination, and the persisted
\* record with that destination holds exactly one click, from the referrer.
C6_Witness ==
    \E r \in Resolvers :
        /\ pc[r] = "done"
        /\ route[r] = [page |-> "href", href |-> UrlB]
        /\ FindById(storage, CodeA).originalUrl = UrlB
        /\ Len(FindById(storage, CodeA).clicks) = 1
        /\ FindById(storage, CodeA).clicks[1].source = "ref"

\* C7: removeLink leaves no record with the deleted code in the link list
\* or in the persisted list, and a createShort with valid inputs whose code
\* is not in the link list succeeds: it puts first a record with that code,
\* the URL typed, the current time and no clicks, before the records already
\* held, and persists that list.
C7_DeleteFreesCode ==
    [][ /\ \A id \in CodeSpace :
              removeLink(id) => (~HasId(links', id) /\ ~HasId(storage', id))
        /\ \A u \in FreshInputs.urls, c \in FreshInputs.customs,
              v \in FreshInputs.validities, g \in FreshInputs.generated, o \in Users :
              (~HasId(links, CodeFor(c, g)) /\ createShort(u, c, v, g, o))
              => /\ err' = ""
                 /\ links' = <<[id |-> CodeFor(c, g), originalUrl |-> u,
                                createdAt |-> now, expiresAt |-> links'[1].expiresAt,
                                clicks |-> <<>>, createdBy |-> o]>> \o links
                 /\ storage' = links' ]_vars

\* A tab still holds the record it found under the code, with the first
\* destination and clicks saved for it; the link list and the persisted list
\* now hold under that code a record with the second destination and no
\* clicks.
C7_Witness ==
    \E r \in Resolvers :
        /\ pc[r] = "timer"
        /\ found[r].id = CodeA
        /\ found[r].originalUrl = UrlA
        /\ Len(links) = 1
        /\ links[1].id = CodeA
        /\ links[1].originalUrl = UrlB
        /\ links[1].clicks = <<>>
        /\ storage = links

\* C8: a createShort whose URL is not one of the well-formed http(s) inputs
\* sets the invalid-URL error, and one with such a URL and a validity that is
\* NaN, zero or negative sets the invalid-duration error; both leave the
\* link list and the persisted list unchanged.
C8_InvalidInputRejected ==
    [][ \A u \in FormInputs.urls, c \in FormInputs.customs,
          v \in FormInputs.validities, g \in FormInputs.generated, o \in Users :
             /\ (u \notin {UrlA, UrlB})
                   => \/ (err' = ErrUrl /\ links' = links /\ storage' = storage)
                      \/ ~createShort(u, c, v, g, o)
             /\ (u \in {UrlA, UrlB}
                     /\ (v.kind = "nan" \/ (v.kind = "num" /\ v.ticks <= 0)))
                   => \/ (err' = ErrValidity /\ links' = links /\ storage' = storage)
                      \/ ~createShort(u, c, v, g, o) ]_vars

\* The invalid-duration error is shown while a record is held.
C8_Witness ==
    /\ err = ErrValidity
    /\ Len(links) = 1
    /\ storage = links

\* C9 (as claimed): every record of the link list and of the persisted list
\* expires strictly after its creation.
C9_ExpiresAfterCreation ==
    /\ \A i \in DOMAIN links : links[i].expiresAt > links[i].createdAt
    /\ \A i \in DOMAIN storage : storage[i].expiresAt > storage[i].createdAt

\* C10 (as claimed, for the simulated click and leaving the expiry instant
\* itself aside): every simulated click held by a record that expires after
\* its creation was recorded no later than the record's expiry.
C10_SimulatedClickWhileLive ==
    \A i \in DOMAIN links :
        links[i].expiresAt > links[i].createdAt
        => \A k \in DOMAIN links[i].clicks :
              links[i].clicks[k].source = "manual-sim"
                  => links[i].clicks[k].ts <= links[i].expiresAt

\* C11 (as claimed): a createShort with valid inputs and no requested code
\* (the custom field trims to nothing) does not stop at its first candidate:
\* it adds a record whose code was not in the link list, or it fails with an
\* error of its own, which is none of the URL, validity and requested-code
\* collision errors.
C11_GeneratedCodeRetried ==
    [][ \A u \in CodesInputs.urls, c \in CodesInputs.customs,
          v \in CodesInputs.validities, g \in CodesInputs.generated, o \in Users :
             \/ /\ Len(links') = Len(links) + 1
                /\ ~HasId(links, links'[1].id)
                /\ err' = ""
             \/ /\ links' = links
                /\ err' \notin {"", ErrUrl, ErrValidity, ErrCollision}
             \/ ~(trim(c) = <<>> /\ isValidUrl(u) /\ ~BadMinutes(MinutesOf(v))
                    /\ createShort(u, c, v, g, o)) ]_vars

\* The record new is the record old with clicks appended at the end, if any.
GrownFrom(old, new) ==
    /\ new.id = old.id
    /\ new.originalUrl = old.originalUrl
    /\ new.createdAt = old.createdAt
    /\ new.expiresAt = old.expiresAt
    /\ new.createdBy = old.createdBy
    /\ Len(new.clicks) >= Len(old.clicks)
    /\ SubSeq(new.clicks, 1, Len(old.clicks)) = old.clicks

\* Every record of the list l whose code the list m still holds has only
\* grown, by clicks appended at the end.
OnlyGrows(l, m) ==
    \A i \in DOMAIN l : HasId(m, l[i].id) => GrownFrom(l[i], FindById(m, l[i].id))

\* The lists l and m hold the same records under every code but id.
SameButFor(l, m, id) ==
    /\ \A i \in DOMAIN l : l[i].id # id => \E j \in DOMAIN m : m[j] = l[i]
    /\ \A j \in DOMAIN m : m[j].id # id => \E i \in DOMAIN l : l[i] = m[j]

\* C12 (as claimed): in every step, a record that the link list (or the
\* persisted list) holds before and after keeps its code, destination,
\* creation and expiry times and owner, and its earlier clicks are a prefix
\* of its later ones; and a step that records a click for one code (a
\* simulated click, or a redirect handler's save) leaves the records of
\* every other code in both lists as they were.
C12_RecordsOnlyGrow ==
    [][ /\ OnlyGrows(links, links')
        /\ OnlyGrows(storage, storage')
        /\ \A i \in DOMAIN links :
              simulateClick(links[i], "manual-sim")
              => /\ SameButFor(links, links', links[i].id)
                 /\ SameButFor(storage, storage', links[i].id)
        /\ \A r \in Resolvers :
              ResolveSave(r)
              => /\ SameButFor(links, links', found[r].id)
                 /\ SameButFor(storage, storage', found[r].id) ]_vars

===========================================================================
